---- MODULE Spec2Model ----
(***************************************************************************)
(* A model of the flatty property analyzer (src/analyzer.py) and of the    *)
(* persona registry it iterates (src/agents.py).                           *)
(*                                                                         *)
(* The specifications of the module:                                       *)
(*   SpecParse  parse_batch_votes applied to bounded raw replies           *)
(*   SpecBatch  evaluate_batch, one persona iteration per step             *)
(*   SpecRun    main(): load, filter, batch loop, save, notify; crashes    *)
(*              and later runs over the same files                         *)
(*   SpecCall   one call_llm call, request by request                       *)
(*   SpecIntake get_unanalyzed applied to bounded histories and id sets    *)
(*   SpecReport one city report: _split_message and the sends of its parts  *)
(*   SpecScrape scraper.py's main() run up to MaxScrapeRuns times            *)
(*   SpecLoad   main() over short histories and every kind of progress     *)
(*              file                                                       *)
(*                                                                         *)
(* Text is modelled as a sequence of tokens, JSON values and exceptions as *)
(* tagged records.  A Python dict that lacks a key carries NoKey there.    *)
(***************************************************************************)
EXTENDS Integers, Sequences, FiniteSets, TLC

VARIABLES
    \* ---- parse_batch_votes harness (SpecParse)
    text,            \* the raw reply handed to parse_batch_votes
    expected_count,  \* its expected_count argument
    parse_out,       \* what the call did: nothing yet, a returned list, a raise
    \* ---- evaluate_batch (SpecBatch)
    agents,          \* the persona registry iterated by evaluate_batch
    batch,           \* the batch argument: a sequence of property ids
    all_votes,       \* all_votes[i][agent_name], i = 1..len(batch)
    agent_i,         \* index of the next persona of the for loop
    calls,           \* persona names whose call_llm was made, in order
    failed,          \* personas whose iteration ended in the except branch
    returned_votes,  \* per persona that did not fail: what parse_batch_votes returned
    batch_out,       \* what evaluate_batch did: running, returned, raised
    \* ---- main() and the files it reads and writes (SpecRun)
    history,         \* properties_history.json: the list load_properties returns
    file,            \* analyzed_properties.json as it is on disk
    pc,              \* where main() is
    runs,            \* how many times main() was started
    llm_ok,          \* whether the provider call_llm routes to has its API key
    analyzed_ids,    \* main's analyzed_ids
    all_results,     \* main's all_results
    to_analyze,      \* main's to_analyze, after both filters
    batch_idx,       \* main's batch_idx, 0-based
    to_send,         \* main's to_send
    skipped,         \* main's skipped
    loaded_count,    \* how many results load_analyzed gave this run
    saved_batches,   \* the ids of the batches whose save_analyzed call returned, this run
    ledger,          \* the ids, and the ids of the results, that the save_analyzed
                     \* calls that returned have written, over all runs
    \* ---- one call_llm call (SpecCall)
    call_provider,   \* ANALYZER_PROVIDER.lower()
    call_key,        \* whether the API key of the provider call_llm routes to is set
    call_pc,         \* where the call is
    attempt,         \* call_anthropic's attempt
    responses,       \* what each requests.post of the call gave, in order
    waits,           \* the time.sleep calls of the call, in seconds, in order
    call_out,        \* what the call did: nothing yet, returned text, raised
    \* ---- one city report of send_notifications (SpecReport)
    city,            \* the city of the report
    full_msg,        \* send_notifications' full_msg
    parts,           \* what _split_message returned
    part_j,          \* how many parts were handed to send_telegram
    sent,            \* the messages handed to send_telegram, in order
    report_pc,       \* where the report is
    \* ---- scraper.py's main() and its two files (SpecScrape)
    seen_file,       \* property_ids of seen_properties.json
    history_file,    \* properties_history.json, newest first
    scrape_pc,       \* where the scraper's main() is
    seen,            \* main's seen
    seen_loaded,     \* what load_seen returned to this run
    all_new,         \* main's all_new
    cross_keys,      \* main's cross_keys
    source_i,        \* how many source lists this run has processed
    scrape_runs      \* how many times the scraper was started

parseVars == <<text, expected_count, parse_out>>
batchVars ==
    <<agents, batch, all_votes, agent_i, calls, failed, returned_votes, batch_out>>
runVars ==
    <<history, file, pc, runs, llm_ok, analyzed_ids, all_results, to_analyze,
      batch_idx, to_send, skipped, loaded_count, saved_batches, ledger>>
callVars == <<call_provider, call_key, call_pc, attempt, responses, waits, call_out>>
reportVars == <<city, full_msg, parts, part_j, sent, report_pc>>
scrapeVars ==
    <<seen_file, history_file, scrape_pc, seen, seen_loaded, all_new, cross_keys,
      source_i, scrape_runs>>
vars == <<parseVars, batchVars, runVars, callVars, reportVars, scrapeVars>>

-----------------------------------------------------------------------------
(* Bounds of the model *)

\* longest raw reply, in tokens, handed to parse_batch_votes in SpecParse
MaxRawLen == 5
\* largest expected_count in SpecParse
MaxCount == 2
\* longest batch handed to evaluate_batch in SpecBatch
MaxBatch == 2
\* most properties in properties_history.json in SpecRun
MaxProps == 6
\* most starts of main() in SpecRun and SpecLoad
MaxRuns == 2
\* most properties in properties_history.json in SpecLoad
MaxLoadProps == 3
\* most properties handed to get_unanalyzed in SpecIntake
MaxIntake == 3
\* most property blocks of a city report in SpecReport
MaxBlocks == 13
\* most listings one scraper call returns, and most scraper runs, in SpecScrape
MaxScraped == 2
MaxScrapeRuns == 2

-----------------------------------------------------------------------------
(* Python helpers *)

NoKey == "<no key>"

Min(a, b) == IF a < b THEN a ELSE b

\* dict.get(key): None (NoKey) when the key is missing
Get(d, key) == d[key]

Range(s) == {s[i] : i \in 1..Len(s)}

-----------------------------------------------------------------------------
(* Tokens of a raw reply and the JSON values they decode to *)

FENCE == [t |-> "fence"]       \* ```
JSONWORD == [t |-> "word"]     \* the word json
LB == [t |-> "lb"]             \* [
RB == [t |-> "rb"]             \* ]
\* a JSON scalar: a number, null or a string.  None of them is a list and none
\* has a .get attribute, which is all parse_batch_votes asks of a value.
SCALAR == [t |-> "scalar"]

\* a JSON object with the keys of BATCH_VOTE_SCHEMA; a missing key is NoKey
VoteObj(num, vote, confidence, summary) ==
    [t |-> "obj", property_num |-> num, vote |-> vote,
     confidence |-> confidence, summary |-> summary]

LlmObj(vote) == VoteObj(1, vote, "0.9", "llm")

VOTES == {"YES", "NO", "UNCERTAIN"}

JsonList(items) == [t |-> "list", items |-> items]

\* json.loads: value := scalar | object | [ value* ]   (the separating commas
\* belong to the tokens).  ok = FALSE is json.JSONDecodeError.
RECURSIVE ParseValue(_, _), ParseItems(_, _, _)
ParseValue(toks, i) ==
    IF i > Len(toks) THEN [ok |-> FALSE, v |-> SCALAR, next |-> i]
    ELSE IF toks[i].t = "lb" THEN ParseItems(toks, i + 1, <<>>)
    ELSE IF toks[i].t \in {"scalar", "obj"}
         THEN [ok |-> TRUE, v |-> toks[i], next |-> i + 1]
    ELSE [ok |-> FALSE, v |-> SCALAR, next |-> i]

ParseItems(toks, i, acc) ==
    IF i > Len(toks) THEN [ok |-> FALSE, v |-> SCALAR, next |-> i]
    ELSE IF toks[i].t = "rb"
         THEN [ok |-> TRUE, v |-> JsonList(acc), next |-> i + 1]
    ELSE LET r == ParseValue(toks, i)
         IN  IF r.ok THEN ParseItems(toks, r.next, Append(acc, r.v))
             ELSE [ok |-> FALSE, v |-> SCALAR, next |-> i]

json_loads(toks) ==
    LET r == ParseValue(toks, 1)
    IN  IF r.ok /\ r.next = Len(toks) + 1
        THEN [ok |-> TRUE, v |-> r.v]
        ELSE [ok |-> FALSE, v |-> SCALAR]

-----------------------------------------------------------------------------
(* parse_batch_votes *)

Return(v) == [kind |-> "return", value |-> v, exc |-> ""]
Raise(e) == [kind |-> "raise", value |-> <<>>, exc |-> e]

\* text.split("```")[1] of a text that starts with a fence: what lies between
\* the first fence and the next one (or the end)
SplitSecond(toks) ==
    LET rest == Tail(toks)
        stops == {i \in 1..Len(rest) : rest[i] = FENCE}
        stop == IF stops = {} THEN Len(rest) + 1
                ELSE CHOOSE i \in stops : \A k \in stops : i <= k
    IN  SubSeq(rest, 1, stop - 1)

StripFences(toks) ==
    LET a == IF Len(toks) > 0 /\ toks[1] = FENCE
             THEN LET s == SplitSecond(toks)
                  IN  IF Len(s) > 0 /\ s[1] = JSONWORD THEN Tail(s) ELSE s
             ELSE toks
    IN  IF Len(a) > 0 /\ a[Len(a)] = FENCE THEN SubSeq(a, 1, Len(a) - 1) ELSE a

PadVote(num) ==
    VoteObj(num, "UNCERTAIN", "0.0", "No response from agent for this property")

ParseFailVote(num) ==
    VoteObj(num, "UNCERTAIN", "0.0", "Failed to parse agent response")

\* a validation that lets every vote through
Normalize_AsIs(v) == v

\* lines 247-248: v["vote"] = "UNCERTAIN" unless v.get("vote") is a valid vote
Normalize(v) ==
    IF Get(v, "vote") \notin VOTES THEN [v EXCEPT !.vote = "UNCERTAIN"] ELSE v

\* a padding that puts the synthetic votes first
Pad_Front(result, n) ==
    IF Len(result) >= n THEN result
    ELSE [i \in 1..n |->
            IF i <= n - Len(result) THEN PadVote(i) ELSE result[i - (n - Len(result))]]

\* lines 252-258: pad to expected_count
Pad(result, n) ==
    [i \in 1..(IF Len(result) < n THEN n ELSE Len(result)) |->
        IF i <= Len(result) THEN result[i] ELSE PadVote(i)]

\* lines 241-242: a bare value is wrapped in a list
AsList(v) == IF v.t = "list" THEN v.items ELSE <<v>>

\* lines 245-260 on the decoded list: v.get on a value that is not a dict
\* raises AttributeError, which no except clause of the function catches
NormalizeAndPad(votes, n) ==
    IF \E i \in 1..Len(votes) : votes[i].t # "obj"
    THEN Raise("AttributeError")
    ELSE Return(SubSeq(Pad([i \in 1..Len(votes) |-> Normalize(votes[i])], n), 1, n))

\* lines 239-272 once json.loads has run on the stripped text
VotesOfDecoded(d, n) ==
    IF ~d.ok
    THEN Return([i \in 1..n |-> ParseFailVote(i)])
    ELSE NormalizeAndPad(AsList(d.v), n)

parse_batch_votes(toks, n) == VotesOfDecoded(json_loads(StripFences(toks)), n)

-----------------------------------------------------------------------------
(* SpecParse: parse_batch_votes over every raw reply of at most MaxRawLen   *)
(* tokens                                                                   *)

ParseTokens ==
    {FENCE, JSONWORD, LB, RB, SCALAR,
     LlmObj("YES"), LlmObj("NO"), LlmObj("MAYBE"), LlmObj(NoKey)}

RawTexts == UNION {[1..n -> ParseTokens] : n \in 0..MaxRawLen}

BatchIdle ==
    /\ agents = <<>>
    /\ batch = <<>>
    /\ all_votes = <<>>
    /\ agent_i = 0
    /\ calls = <<>>
    /\ failed = {}
    /\ returned_votes = <<>>
    /\ batch_out = [kind |-> "idle"]

ParseIdle ==
    /\ text = <<>>
    /\ expected_count = 0
    /\ parse_out = [kind |-> "idle"]

RunIdle ==
    /\ history = <<>>
    /\ file = [kind |-> "idle"]
    /\ pc = "idle"
    /\ runs = 0
    /\ llm_ok = FALSE
    /\ analyzed_ids = {}
    /\ all_results = <<>>
    /\ to_analyze = <<>>
    /\ batch_idx = 0
    /\ to_send = <<>>
    /\ skipped = 0
    /\ loaded_count = 0
    /\ saved_batches = {}
    /\ ledger = [ids |-> {}, results |-> {}]

ReportIdle ==
    /\ city = ""
    /\ full_msg = <<>>
    /\ parts = <<>>
    /\ part_j = 0
    /\ sent = <<>>
    /\ report_pc = "idle"

ScrapeIdle ==
    /\ seen_file = {}
    /\ history_file = <<>>
    /\ scrape_pc = "idle"
    /\ seen = {}
    /\ seen_loaded = {}
    /\ all_new = <<>>
    /\ cross_keys = {}
    /\ source_i = 0
    /\ scrape_runs = 0

CallIdle ==
    /\ call_provider = ""
    /\ call_key = FALSE
    /\ call_pc = "idle"
    /\ attempt = 0
    /\ responses = <<>>
    /\ waits = <<>>
    /\ call_out = [kind |-> "idle"]

InitParse ==
    /\ ReportIdle
    /\ ScrapeIdle
    /\ text \in RawTexts
    /\ expected_count \in 0..MaxCount
    /\ parse_out = [kind |-> "none"]
    /\ BatchIdle
    /\ RunIdle
    /\ CallIdle

ParseCall ==
    /\ parse_out.kind = "none"
    /\ parse_out' = parse_batch_votes(text, expected_count)
    /\ UNCHANGED <<reportVars, scrapeVars, text, expected_count, batchVars, runVars, callVars>>

NextParse == ParseCall

SpecParse == InitParse /\ [][NextParse]_vars

\* C1: for every raw reply and every expected count n >= 0, parse_batch_votes
\* returns, without raising, a list of exactly n votes, each with its vote in
\* {YES, NO, UNCERTAIN}.
C1_ParseNeverRaises ==
    parse_out.kind \notin {"none", "idle"} =>
        /\ parse_out.kind = "return"
        /\ Len(parse_out.value) = expected_count
        /\ \A i \in 1..Len(parse_out.value) : parse_out.value[i].vote \in VOTES

\* ---- what the claims on the parsed list read

Parsed == parse_out.kind \notin {"none", "idle"}

\* the raw reply without a fence around it (and the word json after the
\* opening one)
Unfenced ==
    IF Len(text) >= 2 /\ text[1] = FENCE /\ text[Len(text)] = FENCE
    THEN IF Len(text) >= 3 /\ text[2] = JSONWORD
         THEN SubSeq(text, 3, Len(text) - 1)
         ELSE SubSeq(text, 2, Len(text) - 1)
    ELSE text

Bracketed == Len(Unfenced) >= 2 /\ Unfenced[1] = LB /\ Unfenced[Len(Unfenced)] = RB

\* the elements of the list the reply is, or the reply itself
Elements == IF Bracketed THEN SubSeq(Unfenced, 2, Len(Unfenced) - 1) ELSE Unfenced

\* the reply is a list of vote objects, or a single vote object
IsVoteList ==
    /\ \A i \in 1..Len(Elements) : Elements[i].t = "obj"
    /\ Bracketed \/ Len(Elements) = 1

\* C17: when the reply is a list of k vote objects (a single object counts
\* as a list of one) and n votes are expected, parse_batch_votes returns n
\* votes: the first min(k, n) elements in their order (a valid vote as it
\* is, any other with at most its vote field changed), then synthetic
\* UNCERTAIN votes with confidence 0.
C17_PadAndTruncate ==
    (Parsed /\ IsVoteList) =>
        /\ parse_out.kind = "return"
        /\ Len(parse_out.value) = expected_count
        /\ \A i \in 1..expected_count :
              IF i <= Len(Elements)
              THEN /\ Elements[i].vote \in VOTES => parse_out.value[i] = Elements[i]
                   /\ [parse_out.value[i] EXCEPT !.vote = ""] =
                          [Elements[i] EXCEPT !.vote = ""]
              ELSE /\ parse_out.value[i].vote = "UNCERTAIN"
                   /\ parse_out.value[i].confidence = "0.0"
                   /\ parse_out.value[i].summary =
                          "No response from agent for this property"

\* a single object where two votes are expected: one padded vote
C17_Witness ==
    /\ Parsed
    /\ text = <<LlmObj("NO")>>
    /\ expected_count = 2
    /\ parse_out.value[2].summary = "No response from agent for this property"

\* C18: every vote parse_batch_votes returns is YES, NO or UNCERTAIN, and
\* an element of the reply whose vote is missing or is another value is
\* returned at its position with vote UNCERTAIN and its other fields as
\* they were.
C18_InvalidVoteBecomesUncertain ==
    (Parsed /\ parse_out.kind = "return") =>
        /\ \A i \in 1..Len(parse_out.value) : parse_out.value[i].vote \in VOTES
        /\ IsVoteList =>
              \A i \in 1..Min(Len(Elements), expected_count) :
                  Elements[i].vote \notin VOTES =>
                      parse_out.value[i] = [Elements[i] EXCEPT !.vote = "UNCERTAIN"]

\* a vote that is not one of the three, then an object without a vote
C18_Witness ==
    /\ Parsed
    /\ text = <<LB, LlmObj("MAYBE"), LlmObj(NoKey), RB>>
    /\ expected_count = 2
    /\ parse_out.value[1] = LlmObj("UNCERTAIN")
    /\ parse_out.value[2] = LlmObj("UNCERTAIN")

-----------------------------------------------------------------------------
(* evaluate_batch *)

\* agents.py: the registry, in execution order
AGENTS == <<"Financial Advisor", "Barrio Scout", "Building Inspector", "Deal Shark">>

\* what call_llm did for one persona: it raised (an HTTP error status, a
\* timeout, a missing key, a reply without the text field) or returned text
CallError(e) == [kind |-> "error", exc |-> e, text |-> <<>>]
CallReply(toks) == [kind |-> "reply", exc |-> "", text |-> toks]

\* lines 306-311: the vote the except branch synthesizes
AgentErrorVote(num, e) == VoteObj(num, "UNCERTAIN", "0.0", "Agent error: " \o e)

\* d[key] = value on a dict
DictSet(d, key, value) ==
    [k \in DOMAIN d \cup {key} |-> IF k = key THEN value ELSE d[k]]

\* a recording loop that files each vote under the property_num it carries
RecordVotes_ByPropertyNum(av, name, votes, upto) ==
    [j \in DOMAIN av |->
        IF \E i \in 1..Min(upto, Len(votes)) : votes[i].property_num = j
        THEN DictSet(av[j], name,
                     votes[CHOOSE i \in 1..Min(upto, Len(votes)) :
                              /\ votes[i].property_num = j
                              /\ \A h \in (i + 1)..Min(upto, Len(votes)) :
                                    votes[h].property_num # j])
        ELSE av[j]]

\* a recording loop that writes every vote to the first property
RecordVotes_FirstSlot(av, name, votes, upto) ==
    [j \in DOMAIN av |->
        IF j = 1 /\ upto >= 1 /\ Len(votes) >= 1
        THEN DictSet(av[j], name, votes[Min(upto, Len(votes))]) ELSE av[j]]

\* lines 298-301: all_votes[j][agent_name] = vote for the first upto votes
RecordVotes(av, name, votes, upto) ==
    [j \in DOMAIN av |->
        IF j <= upto /\ j <= Len(votes) THEN DictSet(av[j], name, votes[j]) ELSE av[j]]

\* an except branch that only logs
HandlerVotes_LogOnly(av, name, e) == av

\* lines 303-311: the except branch overwrites the persona's entry of every
\* property of the batch
HandlerVotes(av, name, e) ==
    [j \in DOMAIN av |-> DictSet(av[j], name, AgentErrorVote(j, e))]

\* lines 295-296: call_llm, then parse_batch_votes on its reply; o is what
\* call_llm did
CallAndParse(o, n) ==
    IF o.kind = "reply" THEN parse_batch_votes(o.text, n) ELSE Raise(o.exc)

\* One iteration of the for loop over AGENTS (lines 286-313) for persona
\* name: p is what the call and the parse gave, print_fail > 0 is the
\* iteration of the recording loop whose print raised (0: none did).
\* Gives the new all_votes, whether the except branch ran, and the parsed
\* votes when it did not.
Iteration(av, name, p, print_fail) ==
    IF p.kind = "raise"
    THEN [av |-> HandlerVotes(av, name, p.exc), failed |-> TRUE, parsed |-> <<>>]
    ELSE IF print_fail > 0 /\ print_fail <= Len(p.value)
    THEN [av |-> HandlerVotes(RecordVotes(av, name, p.value, print_fail),
                              name, "UnicodeEncodeError"),
          failed |-> TRUE, parsed |-> <<>>]
    ELSE [av |-> RecordVotes(av, name, p.value, Len(p.value)),
          failed |-> FALSE, parsed |-> p.value]

\* a score map that gives YES one point
ScoreMap_YesIsOne(vote) ==
    IF vote = "YES" THEN 1 ELSE IF vote = "UNCERTAIN" THEN 1 ELSE 0

\* score_map.get(vote, 0)
ScoreMap(vote) ==
    IF vote = "YES" THEN 2 ELSE IF vote = "UNCERTAIN" THEN 1 ELSE 0

RECURSIVE SumOver(_, _)
SumOver(S, f) ==
    IF S = {} THEN 0
    ELSE LET x == CHOOSE y \in S : TRUE IN f[x] + SumOver(S \ {x}, f)

\* the unanimity test left out
Decide_NoUnanimityBranch(no_count, yes_count, len_votes) ==
    IF no_count >= 3 /\ yes_count = 0 THEN "SKIP" ELSE "SEND"

\* the threshold test left out
Decide_NoThresholdBranch(no_count, yes_count, len_votes) ==
    IF no_count = len_votes /\ len_votes > 0 THEN "SKIP" ELSE "SEND"

\* the threshold test without its yes_count == 0 half
Decide_ThresholdIgnoresYes(no_count, yes_count, len_votes) ==
    IF no_count = len_votes /\ len_votes > 0 THEN "SKIP"
    ELSE IF no_count >= 3 THEN "SKIP"
    ELSE "SEND"

\* the unanimity test without its len(votes) > 0 half
Decide_EmptyIsSkip(no_count, yes_count, len_votes) ==
    IF no_count = len_votes THEN "SKIP"
    ELSE IF no_count >= 3 /\ yes_count = 0 THEN "SKIP"
    ELSE "SEND"

\* lines 323-329
Decide(no_count, yes_count, len_votes) ==
    IF no_count = len_votes /\ len_votes > 0 THEN "SKIP"
    ELSE IF no_count >= 3 /\ yes_count = 0 THEN "SKIP"
    ELSE "SEND"

\* line 333: sum() of the confidences raises TypeError on null or a string;
\* a missing key defaults to 0.5
ConfidenceIsNumber(c) == c \in {"0.0", "0.9", NoKey}

\* lines 318-344, one property.  confidence_avg and evaluated_at are left
\* out of the record: of line 333 only whether it raises is modelled.
ResultOf(prop_id, votes) ==
    LET names == DOMAIN votes
        no_count == Cardinality({a \in names : votes[a].vote = "NO"})
        yes_count == Cardinality({a \in names : votes[a].vote = "YES"})
    IN  [property_id |-> prop_id,
         decision |-> Decide(no_count, yes_count, Cardinality(names)),
         votes |-> votes,
         score |-> SumOver(names, [a \in names |-> ScoreMap(votes[a].vote)]),
         yes_count |-> yes_count,
         no_count |-> no_count]

\* lines 316-346
BuildResults(b, av) ==
    IF \E i \in 1..Len(b) : \E a \in DOMAIN av[i] :
           ~ConfidenceIsNumber(Get(av[i][a], "confidence"))
    THEN Raise("TypeError")
    ELSE Return([i \in 1..Len(b) |-> ResultOf(b[i], av[i])])

-----------------------------------------------------------------------------
(* SpecBatch: evaluate_batch on a batch of at most MaxBatch properties,     *)
(* for every registry that is a prefix of AGENTS                            *)

PropId(i) == 100 + i

ListOf(items) == <<LB>> \o items \o <<RB>>

LlmObjC(vote, confidence) == VoteObj(1, vote, confidence, "llm")

\* the replies a persona call may return for a batch of n properties: every
\* list of up to n YES/NO votes (short and exact), a list one vote too long,
\* the lists of n votes that are UNCERTAIN at one place or at every place,
\* and the irregular replies: a scalar, a truncated list, a fenced list of
\* invalid votes, a list of votes whose confidence is null
BatchReplies(n) ==
    {ListOf(items) :
        items \in UNION {[1..m -> {LlmObj("YES"), LlmObj("NO")}] : m \in 0..n}}
    \cup {ListOf([i \in 1..(n + 1) |-> LlmObj(IF i = 1 THEN "NO" ELSE "YES")])}
    \cup {ListOf([i \in 1..n |-> LlmObj(IF i = p THEN "UNCERTAIN" ELSE "YES")]) :
             p \in 1..n}
    \cup {ListOf([i \in 1..n |-> LlmObj("UNCERTAIN")]),
          <<SCALAR>>,
          <<LB, LlmObj("YES")>>,
          <<FENCE, JSONWORD>> \o ListOf([i \in 1..n |-> LlmObj("MAYBE")]) \o <<FENCE>>,
          ListOf([i \in 1..n |-> LlmObjC("YES", "null")])}

CallOutcomes(n) ==
    {CallError("HTTPError")} \cup {CallReply(r) : r \in BatchReplies(n)}

InitBatch ==
    /\ ReportIdle
    /\ ScrapeIdle
    /\ ParseIdle
    /\ RunIdle
    /\ CallIdle
    /\ agents \in {SubSeq(AGENTS, 1, k) : k \in 0..Len(AGENTS)}
    /\ batch \in {[i \in 1..n |-> PropId(i)] : n \in 1..MaxBatch}
    /\ all_votes = [i \in 1..Len(batch) |-> <<>>]
    /\ agent_i = 1
    /\ calls = <<>>
    /\ failed = {}
    /\ returned_votes = <<>>
    /\ batch_out = [kind |-> "running"]

\* the state after an iteration that gave r for persona name
IterationDone(name, r) ==
    /\ all_votes' = r.av
    /\ failed' = IF r.failed THEN failed \cup {name} ELSE failed
    /\ returned_votes' =
           IF r.failed THEN returned_votes ELSE DictSet(returned_votes, name, r.parsed)

\* one pass of the body of "for agent in AGENTS"
AgentIteration ==
    /\ batch_out.kind = "running"
    /\ agent_i <= Len(agents)
    /\ \E o \in CallOutcomes(Len(batch)), print_fail \in 0..Len(batch) :
          IterationDone(agents[agent_i],
                        Iteration(all_votes, agents[agent_i],
                                  CallAndParse(o, Len(all_votes)), print_fail))
    /\ calls' = Append(calls, agents[agent_i])
    /\ agent_i' = agent_i + 1
    /\ UNCHANGED <<reportVars, scrapeVars, callVars, parseVars, runVars, agents, batch, batch_out>>

\* the loop is over: build the results and return, or raise
BuildAndReturn ==
    /\ batch_out.kind = "running"
    /\ agent_i > Len(agents)
    /\ batch_out' = BuildResults(batch, all_votes)
    /\ UNCHANGED <<reportVars, scrapeVars, callVars, parseVars, runVars, agents, batch, all_votes,
                   agent_i, calls, failed,
                   returned_votes>>

NextBatch == AgentIteration \/ BuildAndReturn

SpecBatch == InitBatch /\ [][NextBatch]_vars

\* ---- what the claims read

Returned == batch_out.kind = "return"

VoteOf(i, a) == all_votes[i][a].vote

NoCount(i) == Cardinality({a \in DOMAIN all_votes[i] : VoteOf(i, a) = "NO"})
YesCount(i) == Cardinality({a \in DOMAIN all_votes[i] : VoteOf(i, a) = "YES"})
UncertainCount(i) ==
    Cardinality({a \in DOMAIN all_votes[i] : VoteOf(i, a) = "UNCERTAIN"})

AllNo(i) ==
    /\ DOMAIN all_votes[i] # {}
    /\ \A a \in DOMAIN all_votes[i] : VoteOf(i, a) = "NO"

\* C2: when every persona of a non-empty vote map voted NO, the result
\* evaluate_batch returns for that property has decision SKIP and score 0.
C2_AllNoIsSkipScoreZero ==
    Returned =>
        \A i \in 1..Len(batch) :
            AllNo(i) =>
                /\ batch_out.value[i].decision = "SKIP"
                /\ batch_out.value[i].score = 0

\* Scenario A: four personas, all NO for one property and not for another
C2_Witness ==
    /\ Returned
    /\ Len(agents) = 4
    /\ \E i, k \in 1..Len(batch) : AllNo(i) /\ ~AllNo(k)

C4_AnyYesIsSend ==
    Returned =>
        \A i \in 1..Len(batch) :
            YesCount(i) >= 1 => batch_out.value[i].decision = "SEND"

C4_Witness ==
    /\ Returned
    /\ \E i \in 1..Len(batch) : YesCount(i) = 1 /\ NoCount(i) = 3

\* C6: the results evaluate_batch returns hold, for every property of the
\* batch, a vote map whose keys are exactly the registered personas,
\* whichever calls succeeded, failed, returned short or failed while their
\* votes were being recorded.
C6_VoteMapHasEveryPersona ==
    Returned =>
        /\ Len(batch_out.value) = Len(batch)
        /\ \A i \in 1..Len(batch) :
              DOMAIN batch_out.value[i].votes = Range(agents)

SummaryOf(i, a) == all_votes[i][a].summary

C6_Witness ==
    /\ Returned
    /\ Len(batch) >= 2
    /\ \E a, b, c \in Range(agents) :
          /\ SummaryOf(1, a) = "Agent error: HTTPError"
          /\ SummaryOf(2, b) = "Agent error: UnicodeEncodeError"
          /\ SummaryOf(1, c) = "llm"
          /\ SummaryOf(2, c) = "No response from agent for this property"

\* C7: a persona whose call failed has, for every property of the batch, the
\* vote UNCERTAIN with confidence 0; the personas are called in registry
\* order and all of them are called before evaluate_batch returns; the votes
\* of a persona that did not fail are the ones its reply parsed to; and the
\* returned decision is the one of the full vote map.
C7_FailedPersonaIsolated ==
    /\ \A a \in failed : \A i \in 1..Len(batch) :
          /\ VoteOf(i, a) = "UNCERTAIN"
          /\ all_votes[i][a].confidence = "0.0"
    /\ calls = SubSeq(agents, 1, Len(calls))
    /\ \A a \in DOMAIN returned_votes : \A i \in 1..Len(batch) :
          all_votes[i][a] = returned_votes[a][i]
    /\ Returned =>
          /\ calls = agents
          /\ \A i \in 1..Len(batch) :
                /\ batch_out.value[i].votes = all_votes[i]
                /\ DOMAIN all_votes[i] = Range(agents)
                /\ batch_out.value[i].no_count = NoCount(i)
                /\ batch_out.value[i].yes_count = YesCount(i)

\* Scenario B: the first persona's call fails, later personas vote YES and
\* NO on different properties, and a decision comes out
C7_Witness ==
    /\ Returned
    /\ Len(batch) >= 2
    /\ Len(agents) >= 3
    /\ agents[1] \in failed
    /\ SummaryOf(1, agents[1]) = "Agent error: HTTPError"
    /\ agents[2] \notin failed
    /\ VoteOf(1, agents[2]) = "YES"
    /\ VoteOf(2, agents[2]) = "NO"
    /\ batch_out.value[1].decision = "SEND"

-----------------------------------------------------------------------------
(* main(): the data helpers *)

DAYS_TO_ANALYZE == 4
BATCH_SIZE == 5

\* the day main() runs on; timestamps are day numbers
Today == 10

\* str.lower(), on strings held as sequences of characters
UpperChars ==
    <<"A", "B", "C", "D", "E", "F", "G", "H", "I", "J", "K", "L", "M", "N", "O",
      "P", "Q", "R", "S", "T", "U", "V", "W", "X", "Y", "Z", "O-acute", "O-grave">>
LowerChars ==
    <<"a", "b", "c", "d", "e", "f", "g", "h", "i", "j", "k", "l", "m", "n", "o",
      "p", "q", "r", "s", "t", "u", "v", "w", "x", "y", "z", "o-acute", "o-grave">>

LowerChar(c) ==
    IF \E i \in 1..Len(UpperChars) : UpperChars[i] = c
    THEN LowerChars[CHOOSE i \in 1..Len(UpperChars) : UpperChars[i] = c]
    ELSE c

Lower(str) == [i \in 1..Len(str) |-> LowerChar(str[i])]

\* "needle in haystack" on strings
Contains(haystack, needle) ==
    \E i \in 0..(Len(haystack) - Len(needle)) :
        \A k \in 1..Len(needle) : haystack[i + k] = needle[k]

\* profile.py
BLACKLISTED_ZONES ==
    <<  <<"R", "a", "v", "a", "l">>,
        <<"E", "l", " ", "R", "a", "v", "a", "l">>,
        <<"P", "o", "b", "l", "e", " ", "S", "e", "c">>,
        <<"P", "o", "b", "l", "e", "-", "s", "e", "c">>,
        <<"E", "l", " ", "P", "o", "b", "l", "e", " ", "S", "e", "c">>,
        <<"E", "l", " ", "P", "o", "b", "l", "e", "-", "s", "e", "c">>,
        <<"G", "o-acute", "t", "i", "c", "o">>,
        <<"G", "o-grave", "t", "i", "c">>,
        <<"B", "a", "r", "r", "i", " ", "G", "o-grave", "t", "i", "c">>,
        <<"B", "a", "r", "r", "i", "o", " ", "G", "o-acute", "t", "i", "c", "o">>  >>

\* the characters of the addresses and titles of the model's properties
CharsOf(str) ==
    CASE str = "Gracia" -> <<"G", "r", "a", "c", "i", "a">>
      [] str = "EL RAVAL" -> <<"E", "L", " ", "R", "A", "V", "A", "L">>
      [] str = "Piso" -> <<"P", "i", "s", "o">>
      [] str = "BARRI GOTIC" ->
            <<"B", "A", "R", "R", "I", " ", "G", "O-grave", "T", "I", "C">>

\* zone.lower() of every zone
LoweredZones == [z \in 1..Len(BLACKLISTED_ZONES) |-> Lower(BLACKLISTED_ZONES[z])]

\* a test that lowers the zones and not the text
is_blacklisted_TextNotLowered(prop) ==
    LET txt == CharsOf(prop.address) \o <<" ">> \o CharsOf(prop.title)
    IN  \E z \in 1..Len(LoweredZones) : Contains(txt, LoweredZones[z])

is_blacklisted(prop) ==
    LET txt == Lower(CharsOf(prop.address) \o <<" ">> \o CharsOf(prop.title))
    IN  \E z \in 1..Len(LoweredZones) : Contains(txt, LoweredZones[z])

\* scraped_at: no key or "" (none), an ISO timestamp (iso, with its day), or a
\* string datetime.fromisoformat rejects (bad)
NoStamp == [k |-> "none", day |-> 0]
IsoStamp(day) == [k |-> "iso", day |-> day]
BadStamp == [k |-> "bad", day |-> 0]

\* a selection that drops the candidates without a readable timestamp
get_unanalyzed_UndatedDropped(properties, ids, now) ==
    LET cutoff == now - DAYS_TO_ANALYZE
        Keep(prop) ==
            /\ prop.id \notin ids
            /\ prop.scraped_at.k = "iso"
            /\ prop.scraped_at.day >= cutoff
    IN  SelectSeq(properties, Keep)

\* a selection without the test on analyzed_ids
get_unanalyzed_NoIdTest(properties, ids, now) ==
    LET cutoff == now - DAYS_TO_ANALYZE
        Keep(prop) == ~(prop.scraped_at.k = "iso" /\ prop.scraped_at.day < cutoff)
    IN  SelectSeq(properties, Keep)

get_unanalyzed(properties, ids, now) ==
    LET cutoff == now - DAYS_TO_ANALYZE
        Keep(prop) ==
            /\ prop.id \notin ids
            /\ ~(prop.scraped_at.k = "iso" /\ prop.scraped_at.day < cutoff)
    IN  SelectSeq(properties, Keep)

\* what is on disk at ANALYZED_FILE
FileMissing == [kind |-> "missing"]
\* the file after open(ANALYZED_FILE, "w") and before json.dump has written
\* it all: empty or a prefix of the JSON text
FileTorn == [kind |-> "torn"]
FileRecord(ids, results, stamp) ==
    [kind |-> "record", analyzed_ids |-> ids, results |-> results, last_run |-> stamp]

\* a file whose text decodes to JSON that main() did not write: a list, or an
\* object without the keys analyzed_ids and results
FileList == [kind |-> "list"]
FileNoKeys == [kind |-> "nokeys"]

EmptyRecord == FileRecord({}, <<>>, 0)

\* lines 57-64: a missing file and a JSONDecodeError both give the empty
\* record; whatever else json.load decodes is returned as it is
load_analyzed(f) ==
    IF f.kind \in {"missing", "torn"} THEN EmptyRecord ELSE f

\* lines 528-529: analyzed_data.get(...) raises AttributeError on a value
\* that is not a dict, and gives the defaults on a dict without the keys
IsDict(data) == data.kind \in {"record", "nokeys"}
LoadedIds(data) == IF data.kind = "record" THEN data.analyzed_ids ELSE {}
LoadedResults(data) == IF data.kind = "record" THEN data.results ELSE <<>>

\* a save that writes the batch's results in place of all_results
RecordToSave_BatchOnly(ids, results, batch_len, stamp) ==
    FileRecord(ids, SubSeq(results, Len(results) - batch_len + 1, Len(results)), stamp)

\* line 582 and lines 67-70: the record save_analyzed dumps
RecordToSave(ids, results, batch_len, stamp) == FileRecord(ids, results, stamp)

-----------------------------------------------------------------------------
(* main(): evaluate_batch as one call *)

RECURSIVE RunAgents(_, _, _, _)
RunAgents(av, ags, row, k) ==
    IF k > Len(ags) THEN av
    ELSE RunAgents(Iteration(av, ags[k], CallAndParse(row[k], Len(av)), 0).av,
                   ags, row, k + 1)

\* lines 279-346: row[k] is what call_llm does for the k-th persona
evaluate_batch(b, ags, row) ==
    BuildResults(b, RunAgents([i \in 1..Len(b) |-> <<>>], ags, row, 1))

\* what one persona call may do in SpecRun: fail, or return n votes that are
\* all NO or alternately YES and NO
RunOutcomes(n) ==
    {CallError("HTTPError"),
     CallReply(ListOf([i \in 1..n |-> LlmObj("NO")])),
     CallReply(ListOf([i \in 1..n |-> LlmObj(IF i % 2 = 1 THEN "YES" ELSE "NO")]))}

\* a reply of n YES votes whose confidence is null
NullConfidenceReply(n) == CallReply(ListOf([i \in 1..n |-> LlmObjC("YES", "null")]))

\* what the four calls of one batch may do: the first k personas get one
\* outcome and the others another, or the last persona returns null
\* confidences after three NO replies.  Without the API key every call
\* raises (lines 166-167, 198-199).
RunRows(n, key_ok) ==
    IF ~key_ok THEN {[a \in 1..Len(AGENTS) |-> CallError("ValueError")]}
    ELSE {[a \in 1..Len(AGENTS) |-> IF a <= k THEN o1 ELSE o2] :
             k \in 0..(Len(AGENTS) - 1), o1 \in RunOutcomes(n), o2 \in RunOutcomes(n)}
         \cup {[a \in 1..Len(AGENTS) |->
                  IF a < Len(AGENTS) THEN CallReply(ListOf([i \in 1..n |-> LlmObj("NO")]))
                  ELSE NullConfidenceReply(n)]}

-----------------------------------------------------------------------------
(* SpecRun: main() run up to MaxRuns times over the same files, with        *)
(* crashes                                                                  *)

Prop(id, stamp, address) ==
    [id |-> id, scraped_at |-> stamp, address |-> address, title |-> "Piso"]

\* the first property of the history is plain, in a blacklisted zone, too
\* old, at the cutoff, undated or with an unreadable timestamp; the others
\* are plain
FirstProps ==
    {Prop(PropId(1), IsoStamp(Today), "Gracia"),
     Prop(PropId(1), IsoStamp(Today), "EL RAVAL"),
     Prop(PropId(1), IsoStamp(Today - DAYS_TO_ANALYZE - 1), "Gracia"),
     Prop(PropId(1), IsoStamp(Today - DAYS_TO_ANALYZE), "Gracia"),
     Prop(PropId(1), NoStamp, "Gracia"),
     Prop(PropId(1), BadStamp, "Gracia")}

Histories ==
    {<<>>} \cup
    {[i \in 1..n |-> IF i = 1 THEN first ELSE Prop(PropId(i), IsoStamp(Today), "Gracia")] :
        n \in 1..MaxProps, first \in FirstProps}

\* ANALYZER_PROVIDER and the two API keys
Configs ==
    [provider : {"anthropic", "gemini", "openai"},
     anthropic_key : BOOLEAN, gemini_key : BOOLEAN]

\* lines 519-524
CredentialCheck(cfg) ==
    /\ ~(cfg.provider = "anthropic" /\ ~cfg.anthropic_key)
    /\ ~(cfg.provider = "gemini" /\ ~cfg.gemini_key)

\* lines 220-226, 166-167, 198-199: the key call_llm's provider needs
KeyPresent(cfg) ==
    IF cfg.provider = "anthropic" THEN cfg.anthropic_key ELSE cfg.gemini_key

Ids(props) == {props[i].id : i \in 1..Len(props)}
ResultIds(results) == {results[i].property_id : i \in 1..Len(results)}

IsSend(result) == result.decision = "SEND"

\* every vote of the result is the one the except branch of evaluate_batch
\* writes (lines 306-311)
IsOutage(result) ==
    /\ DOMAIN result.votes # {}
    /\ \A a \in DOMAIN result.votes :
          \E e \in {"HTTPError", "ValueError"} :
              result.votes[a] \in {AgentErrorVote(i, e) : i \in 1..BATCH_SIZE}
IsSkip(result) == result.decision # "SEND"

InitRun ==
    /\ ReportIdle
    /\ ScrapeIdle
    /\ ParseIdle
    /\ BatchIdle
    /\ CallIdle
    /\ history \in Histories
    /\ file = FileMissing
    /\ pc = "idle"
    /\ runs = 0
    /\ llm_ok = FALSE
    /\ analyzed_ids = {}
    /\ all_results = <<>>
    /\ to_analyze = <<>>
    /\ batch_idx = 0
    /\ to_send = <<>>
    /\ skipped = 0
    /\ loaded_count = 0
    /\ saved_batches = {}
    /\ ledger = [ids |-> {}, results |-> {}]

Stopped ==
    pc \in {"idle", "done", "crashed", "aborted", "load_failed", "exit_config",
            "exit_nothing"}

\* lines 513-557: main() up to the batch loop
StartRun ==
    /\ Stopped
    /\ runs < MaxRuns
    /\ runs' = runs + 1
    /\ saved_batches' = {}
    /\ to_send' = <<>>
    /\ skipped' = 0
    /\ batch_idx' = 0
    /\ LET data == load_analyzed(file)
           cand == get_unanalyzed(history, LoadedIds(data), Today)
           blacklisted == SelectSeq(cand, is_blacklisted)
           NotBlacklisted(prop) == ~is_blacklisted(prop)
           rest == SelectSeq(cand, NotBlacklisted)
       IN  \E cfg \in Configs :
              IF ~CredentialCheck(cfg)
              THEN /\ pc' = "exit_config"
                   /\ llm_ok' = FALSE
                   /\ loaded_count' = 0
                   /\ analyzed_ids' = {}
                   /\ all_results' = <<>>
                   /\ to_analyze' = <<>>
              ELSE IF ~IsDict(data)
              THEN /\ pc' = "load_failed"
                   /\ llm_ok' = KeyPresent(cfg)
                   /\ loaded_count' = 0
                   /\ analyzed_ids' = {}
                   /\ all_results' = <<>>
                   /\ to_analyze' = <<>>
              ELSE /\ llm_ok' = KeyPresent(cfg)
                   /\ analyzed_ids' = LoadedIds(data) \cup Ids(blacklisted)
                   /\ all_results' = LoadedResults(data)
                   /\ loaded_count' = Len(LoadedResults(data))
                   /\ to_analyze' = rest
                   /\ pc' = IF rest = <<>> THEN "exit_nothing" ELSE "loop"
    /\ UNCHANGED <<reportVars, scrapeVars, callVars, parseVars, batchVars, history, file, ledger>>

\* a merge that hands every result to the notification list
BatchEvaluated_SendAll(r) ==
    IF r.kind = "raise"
    THEN /\ pc' = "aborted"
         /\ UNCHANGED <<analyzed_ids, all_results, to_send, skipped>>
    ELSE /\ pc' = "save"
         /\ all_results' = all_results \o r.value
         /\ analyzed_ids' = analyzed_ids \cup ResultIds(r.value)
         /\ to_send' = to_send \o r.value
         /\ skipped' = skipped + Len(SelectSeq(r.value, IsSkip))

\* lines 569-579: the results of a batch are merged; an exception of
\* evaluate_batch is caught nowhere and ends main()
BatchEvaluated(r) ==
    IF r.kind = "raise"
    THEN /\ pc' = "aborted"
         /\ UNCHANGED <<analyzed_ids, all_results, to_send, skipped>>
    ELSE /\ pc' = "save"
         /\ all_results' = all_results \o r.value
         /\ analyzed_ids' = analyzed_ids \cup ResultIds(r.value)
         /\ to_send' = to_send \o SelectSeq(r.value, IsSend)
         /\ skipped' = skipped + Len(SelectSeq(r.value, IsSkip))

\* a slice one candidate short
BatchIds_ShortSlice(props, idx) ==
    [i \in 1..(Min(idx + BATCH_SIZE - 1, Len(props)) - idx) |-> props[idx + i].id]

\* line 560: batch = to_analyze[batch_idx:batch_idx + BATCH_SIZE], as ids
BatchIds(props, idx) ==
    [i \in 1..(Min(idx + BATCH_SIZE, Len(props)) - idx) |-> props[idx + i].id]

\* lines 559-579: one batch evaluated and its results merged
EvaluateBatch ==
    /\ pc = "loop"
    /\ batch_idx < Len(to_analyze)
    /\ \E row \in RunRows(Min(BATCH_SIZE, Len(to_analyze) - batch_idx), llm_ok) :
          BatchEvaluated(evaluate_batch(BatchIds(to_analyze, batch_idx), AGENTS, row))
    /\ UNCHANGED <<reportVars, scrapeVars, callVars, parseVars, batchVars, history, file, runs,
                   llm_ok, to_analyze,
                   batch_idx, loaded_count, saved_batches, ledger>>

\* line 69: open(ANALYZED_FILE, "w") truncates the file
SaveOpen ==
    /\ pc = "save"
    /\ file' = FileTorn
    /\ pc' = "writing"
    /\ UNCHANGED <<reportVars, scrapeVars, callVars, parseVars, batchVars, history, runs, llm_ok,
                   analyzed_ids,
                   all_results, to_analyze, batch_idx, to_send, skipped, loaded_count,
                   saved_batches, ledger>>

\* line 70: json.dump writes the record and the file is closed; the loop
\* goes on to the next batch
SaveWrite ==
    /\ pc = "writing"
    /\ LET n == Min(BATCH_SIZE, Len(to_analyze) - batch_idx)
           rec == RecordToSave(analyzed_ids, all_results, n, runs)
       IN  /\ file' = rec
           /\ ledger' = [ids |-> ledger.ids \cup LoadedIds(rec),
                         results |-> ledger.results \cup ResultIds(LoadedResults(rec))]
           /\ saved_batches' = saved_batches \cup
                 ResultIds(SubSeq(all_results, Len(all_results) - n + 1, Len(all_results)))
    /\ batch_idx' = batch_idx + BATCH_SIZE
    /\ pc' = "loop"
    /\ UNCHANGED <<reportVars, scrapeVars, callVars, parseVars, batchVars, history, runs, llm_ok,
                   analyzed_ids, all_results,
                   to_analyze, to_send, skipped, loaded_count>>

\* lines 584-589: the loop is over; to_send and skipped are handed to
\* send_notifications
Notify ==
    /\ pc = "loop"
    /\ batch_idx >= Len(to_analyze)
    /\ pc' = "done"
    /\ UNCHANGED <<reportVars, scrapeVars, callVars, parseVars, batchVars, history, file, runs,
                   llm_ok, analyzed_ids,
                   all_results, to_analyze, batch_idx, to_send, skipped, loaded_count,
                   saved_batches, ledger>>

\* the process is killed (or the machine stops) inside the batch loop
Crash ==
    /\ pc \in {"loop", "save", "writing"}
    /\ pc' = "crashed"
    /\ UNCHANGED <<reportVars, scrapeVars, callVars, parseVars, batchVars, history, file, runs,
                   llm_ok, analyzed_ids,
                   all_results, to_analyze, batch_idx, to_send, skipped, loaded_count,
                   saved_batches, ledger>>

NextRun == StartRun \/ EvaluateBatch \/ SaveOpen \/ SaveWrite \/ Notify \/ Crash

SpecRun == InitRun /\ [][NextRun]_vars

\* ---- what the claims read

\* the results evaluated by the current run: all_results without what
\* load_analyzed gave
RunResults == SubSeq(all_results, loaded_count + 1, Len(all_results))

NoVotes(result) ==
    Cardinality({a \in DOMAIN result.votes : result.votes[a].vote = "NO"})
YesVotes(result) ==
    Cardinality({a \in DOMAIN result.votes : result.votes[a].vote = "YES"})

InToSend(result) == \E k \in 1..Len(to_send) : to_send[k] = result

\* the ids and results a load of the file would give
StoredIds == LoadedIds(load_analyzed(file))
StoredResultIds == ResultIds(LoadedResults(load_analyzed(file)))

C8_RunNeverAborts == pc # "aborted"

\* C9: the record is saved after every completed batch: between two saves
\* (the file is not being rewritten) the stored analyzed_ids and results hold
\* every candidate of every batch whose save returned, the results that are
\* not stored are those of at most one batch, and when the loop is about to
\* take its next batch the stored record is the whole of main's progress.
C9_CompletedBatchesPersisted ==
    file.kind # "torn" =>
        /\ saved_batches # {} => file.kind = "record"
        /\ saved_batches \subseteq StoredIds
        /\ saved_batches \subseteq StoredResultIds
        /\ Cardinality(ResultIds(RunResults) \ StoredResultIds) <= BATCH_SIZE
        /\ (pc = "loop" /\ batch_idx > 0) =>
              /\ file.analyzed_ids = analyzed_ids
              /\ file.results = all_results

\* a crash between two saves: one batch was saved, the next one was
\* evaluated and is lost
C9_Witness ==
    /\ pc = "crashed"
    /\ file.kind = "record"
    /\ Cardinality(saved_batches) = BATCH_SIZE
    /\ Len(all_results) > Len(file.results)

\* C10: a crash at any point, the write itself included, leaves a complete
\* record on disk, so the next load does not fall back to the empty record.
C10_CrashLeavesCompleteRecord == pc = "crashed" => file.kind # "torn"

-----------------------------------------------------------------------------
(* SpecLoad: main() started on a progress file that is missing, torn,       *)
(* foreign or a record, over histories of at most MaxLoadProps properties   *)

LoadFiles ==
    {FileMissing, FileTorn, FileList, FileNoKeys, FileRecord({PropId(1)}, <<>>, 1)}

\* the first property is one of FirstProps or has the zone in its title (in
\* capitals, with the accent); each later one is plain or in a blacklisted
\* zone
TitledProp(id) == [Prop(id, IsoStamp(Today), "Gracia") EXCEPT !.title = "BARRI GOTIC"]

LoadProps(i) ==
    IF i = 1 THEN FirstProps \cup {TitledProp(PropId(1))}
    ELSE {Prop(PropId(i), IsoStamp(Today), "Gracia"),
          Prop(PropId(i), IsoStamp(Today), "EL RAVAL")}

LoadHistories ==
    {h \in UNION {[1..n -> UNION {LoadProps(i) : i \in 1..MaxLoadProps}] :
                     n \in 0..MaxLoadProps} :
        \A i \in 1..Len(h) : h[i] \in LoadProps(i)}

InitLoad ==
    /\ ReportIdle
    /\ ScrapeIdle
    /\ ParseIdle
    /\ BatchIdle
    /\ CallIdle
    /\ history \in LoadHistories
    /\ file \in LoadFiles
    /\ pc = "idle"
    /\ runs = 0
    /\ llm_ok = FALSE
    /\ analyzed_ids = {}
    /\ all_results = <<>>
    /\ to_analyze = <<>>
    /\ batch_idx = 0
    /\ to_send = <<>>
    /\ skipped = 0
    /\ loaded_count = 0
    /\ saved_batches = {}
    /\ ledger = [ids |-> {}, results |-> {}]

SpecLoad == InitLoad /\ [][NextRun]_vars

\* C11: whatever the progress file holds (nothing, text that does not
\* decode, or JSON that is not a record with analyzed_ids and results),
\* loading it never ends the run.
C11_LoadNeverFails == pc # "load_failed"

\* the candidates of the history that match the exclusion list
Excluded == {i \in 1..Len(history) : is_blacklisted(history[i])}

\* C12: when a run has ended normally (after the notification step, or with
\* nothing to analyze), every candidate of the history that matches the
\* exclusion list is in the stored analyzed_ids, also when the exclusion
\* left no candidate to evaluate.
C12_ExcludedIsPersisted ==
    pc \in {"done", "exit_nothing"} =>
        \A i \in Excluded : history[i].id \in StoredIds

\* the candidates of the model whose address or title holds an exclusion
\* string in some letter case: "EL RAVAL" holds Raval, "BARRI GOTIC" (with
\* the grave accent) holds Gotic
MatchesExclusion(prop) == prop.address = "EL RAVAL" \/ prop.title = "BARRI GOTIC"

\* C13: a candidate whose address or title contains an exclusion string,
\* in any letter case, is never among the candidates handed to
\* evaluate_batch, and no result in memory, in the notification list or in
\* the stored record carries its id.
C13_ExcludedNeverEvaluated ==
    \A i \in 1..Len(history) :
        MatchesExclusion(history[i]) =>
            /\ history[i].id \notin Ids(to_analyze)
            /\ history[i].id \notin ResultIds(all_results)
            /\ history[i].id \notin ResultIds(to_send)
            /\ history[i].id \notin StoredResultIds

\* Scenario D: a finished run that evaluated a candidate and marked two
\* excluded ones, one by its address and one by its title, as analyzed
C13_Witness ==
    /\ pc = "done"
    /\ Len(all_results) >= 1
    /\ \E i, k \in 1..Len(history) :
          /\ history[i].address = "EL RAVAL"
          /\ history[k].title = "BARRI GOTIC"
          /\ {history[i].id, history[k].id} \subseteq StoredIds

\* C14: a run whose provider, as call_llm routes it, has no API key stops
\* at startup: it never reaches the batch loop, an evaluator call or a save.
C14_NoRunWithoutKey ==
    pc \in {"loop", "save", "writing", "done", "aborted"} => llm_ok

-----------------------------------------------------------------------------
(* SpecCall: one call_llm call, one requests.post or time.sleep per step    *)

\* what requests.post gave: it raised (a timeout, a connection error), or a
\* response with a status code and a body.  The body decodes to JSON with
\* the text field (text, with the reply in it), to JSON without it (notext),
\* or does not decode (notjson).
PostRaised(e) == [kind |-> "exception", exc |-> e, status |-> 0, body |-> "", text |-> <<>>]
Response(status, body, toks) ==
    [kind |-> "response", exc |-> "", status |-> status, body |-> body, text |-> toks]

\* the replies of one persona for a batch of up to MaxBatch properties
ReplyTexts == UNION {BatchReplies(n) : n \in 1..MaxBatch}

Statuses == {200, 400, 401, 429, 500, 503, 529}

Responses ==
    {PostRaised("Timeout"), PostRaised("ConnectionError")}
    \cup {Response(st, "notext", <<>>) : st \in Statuses}
    \cup {Response(200, "notjson", <<>>)}
    \cup {Response(200, "text", t) : t \in ReplyTexts}

\* line 186: the status the Anthropic API gives when it is overloaded
IsOverloaded(resp) == resp.kind = "response" /\ resp.status = 529

\* a retry test that takes every server error for an overload
ShouldRetry_AnyServerError(resp, att) ==
    resp.kind = "response" /\ resp.status >= 500 /\ att < 2

\* line 186
ShouldRetry(resp, att) == resp.kind = "response" /\ resp.status = 529 /\ att < 2

\* line 187
RetryWait(att) == 15 * (att + 1)

\* lines 191-193 and 215-217: raise_for_status, response.json() and the
\* path to the text
ReadResponse(resp) ==
    IF resp.status >= 400 THEN CallError("HTTPError")
    ELSE IF resp.body = "notjson" THEN CallError("JSONDecodeError")
    ELSE IF resp.body = "notext" THEN CallError("KeyError")
    ELSE CallReply(resp.text)

\* lines 220-226: every provider other than anthropic is sent to call_gemini
RoutesToAnthropic == call_provider = "anthropic"

InitCall ==
    /\ ReportIdle
    /\ ScrapeIdle
    /\ ParseIdle
    /\ BatchIdle
    /\ RunIdle
    /\ call_provider \in {"anthropic", "gemini", "openai"}
    /\ call_key \in BOOLEAN
    /\ call_pc = "start"
    /\ attempt = 0
    /\ responses = <<>>
    /\ waits = <<>>
    /\ call_out = [kind |-> "none"]

\* lines 166-167 and 198-199: the key test of the routed provider
CallStart ==
    /\ call_pc = "start"
    /\ IF call_key
       THEN /\ call_pc' = "request"
            /\ call_out' = call_out
       ELSE /\ call_pc' = "raised"
            /\ call_out' = CallError("ValueError")
    /\ UNCHANGED <<reportVars, scrapeVars, parseVars, batchVars, runVars, call_provider, call_key,
                   attempt,
                   responses, waits>>

\* the call ends with what ReadResponse gives
CallEnds(o) ==
    /\ call_out' = o
    /\ call_pc' = IF o.kind = "reply" THEN "returned" ELSE "raised"

\* lines 184-193: one pass of "for attempt in range(3)" up to the sleep
AnthropicRequest ==
    /\ call_pc = "request"
    /\ RoutesToAnthropic
    /\ \E resp \in Responses :
          /\ responses' = Append(responses, resp)
          /\ IF resp.kind = "exception"
             THEN CallEnds(CallError(resp.exc))
             ELSE IF ShouldRetry(resp, attempt)
             THEN call_pc' = "sleep" /\ call_out' = call_out
             ELSE CallEnds(ReadResponse(resp))
    /\ UNCHANGED <<reportVars, scrapeVars, parseVars, batchVars, runVars, call_provider, call_key,
                   attempt, waits>>

\* lines 187-190: time.sleep(wait) and continue
AnthropicSleep ==
    /\ call_pc = "sleep"
    /\ waits' = Append(waits, RetryWait(attempt))
    /\ attempt' = attempt + 1
    /\ call_pc' = "request"
    /\ UNCHANGED <<reportVars, scrapeVars, parseVars, batchVars, runVars, call_provider, call_key,
                   responses,
                   call_out>>

\* lines 214-217: call_gemini posts once
GeminiRequest ==
    /\ call_pc = "request"
    /\ ~RoutesToAnthropic
    /\ \E resp \in Responses :
          /\ responses' = Append(responses, resp)
          /\ IF resp.kind = "exception"
             THEN CallEnds(CallError(resp.exc))
             ELSE CallEnds(ReadResponse(resp))
    /\ UNCHANGED <<reportVars, scrapeVars, parseVars, batchVars, runVars, call_provider, call_key,
                   attempt, waits>>

NextCall == CallStart \/ AnthropicRequest \/ AnthropicSleep \/ GeminiRequest

SpecCall == InitCall /\ [][NextCall]_vars

\* ---- what the claims read

CallOver == call_pc \in {"returned", "raised"}

LastResponse == responses[Len(responses)]

\* C15: for whichever provider is configured, a call that fails on an
\* overloaded response has made 3 requests, with a wait of 15s after the
\* first and of 30s after the second; no call makes more than 3 requests.
C15_OverloadIsRetried ==
    /\ Len(responses) <= 3
    /\ (call_pc = "raised" /\ responses # <<>> /\ IsOverloaded(LastResponse)) =>
          /\ Len(responses) = 3
          /\ waits = <<15, 30>>

\* a request that did not give the reply text
IsFailure(resp) ==
    resp.kind = "exception" \/ resp.status >= 400 \/ resp.body # "text"

\* C16: a failure other than an overloaded response is not retried: every
\* request that was followed by another request or by a wait had given an
\* overloaded response, and a call whose last request failed has raised.
C16_OtherFailuresNotRetried ==
    /\ \A i \in 1..(Len(responses) - 1) : IsOverloaded(responses[i])
    /\ call_pc \in {"request", "sleep"} =>
          \A i \in 1..Len(responses) : IsOverloaded(responses[i])
    /\ (CallOver /\ responses # <<>> /\ IsFailure(LastResponse)) =>
          /\ call_pc = "raised"
          /\ call_out.kind = "error"
    /\ Len(waits) <= Len(responses)

\* an overloaded response, a wait, then a server error that ends the call
C16_Witness ==
    /\ call_pc = "raised"
    /\ Len(responses) = 2
    /\ IsOverloaded(responses[1])
    /\ responses[2].status = 500
    /\ waits = <<15>>
    /\ call_out = CallError("HTTPError")

-----------------------------------------------------------------------------
(* Score and the empty registry, under SpecBatch *)

UncertainVotes(result) ==
    Cardinality({a \in DOMAIN result.votes : result.votes[a].vote = "UNCERTAIN"})

\* C19: the score of a returned result is 2 x (YES votes) + (UNCERTAIN
\* votes) of its vote map; it lies between 0 and 2 x (personas); yes_count +
\* no_count is at most the number of personas; and the score is 0 exactly
\* when every vote is NO (or there is no persona).
C19_ScoreIsWeightedSum ==
    Returned =>
        \A i \in 1..Len(batch_out.value) :
            /\ batch_out.value[i].score =
                  2 * YesVotes(batch_out.value[i]) + UncertainVotes(batch_out.value[i])
            /\ batch_out.value[i].score >= 0
            /\ batch_out.value[i].score <= 2 * Len(agents)
            /\ batch_out.value[i].yes_count + batch_out.value[i].no_count <= Len(agents)
            /\ batch_out.value[i].score = 0 <=>
                  \A a \in DOMAIN batch_out.value[i].votes :
                      batch_out.value[i].votes[a].vote = "NO"

\* four personas: one result with YES, UNCERTAIN and NO votes and score 5,
\* another with score 0
C19_Witness ==
    /\ Returned
    /\ Len(agents) = 4
    /\ \E i, k \in 1..Len(batch_out.value) :
          /\ YesVotes(batch_out.value[i]) = 2
          /\ UncertainVotes(batch_out.value[i]) = 1
          /\ NoVotes(batch_out.value[i]) = 1
          /\ batch_out.value[i].score = 5
          /\ batch_out.value[k].score = 0

\* C20: with no registered persona every candidate of the batch gets
\* decision SEND and score 0.
C20_NoPersonaIsSend ==
    (Returned /\ agents = <<>>) =>
        /\ Len(batch_out.value) = Len(batch)
        /\ \A i \in 1..Len(batch_out.value) :
              /\ batch_out.value[i].decision = "SEND"
              /\ batch_out.value[i].score = 0
              /\ batch_out.value[i].votes = <<>>

C20_Witness ==
    /\ Returned
    /\ agents = <<>>
    /\ calls = <<>>
    /\ Len(batch_out.value) = 2

-----------------------------------------------------------------------------
(* Selection after a run, under SpecLoad *)

\* C21: get_unanalyzed never returns a candidate whose id is in
\* analyzed_ids, and once a run has gone through to the notification step,
\* selecting again over the same history with the analyzed ids of the run,
\* in memory or as stored, gives no candidate.
C21_NothingEligibleAfterRun ==
    /\ Ids(get_unanalyzed(history, analyzed_ids, Today)) \cap analyzed_ids = {}
    /\ pc = "done" =>
          /\ get_unanalyzed(history, analyzed_ids, Today) = <<>>
          /\ get_unanalyzed(history, StoredIds, Today) = <<>>

\* a finished run that evaluated two candidates of a history which, before
\* it, had candidates to select
C21_Witness ==
    /\ pc = "done"
    /\ Len(RunResults) = 2
    /\ Len(get_unanalyzed(history, {}, Today)) >= 2

-----------------------------------------------------------------------------
(* SpecIntake: get_unanalyzed over every history of at most MaxIntake       *)
(* properties, each fresh, old or undated, and every set of analyzed ids    *)

\* scraped_at of a property: now, yesterday, at the cutoff, the day before
\* the cutoff, a month ago, missing or empty, unreadable
Stamps ==
    {IsoStamp(Today), IsoStamp(Today - 1), IsoStamp(Today - DAYS_TO_ANALYZE),
     IsoStamp(Today - DAYS_TO_ANALYZE - 1), IsoStamp(Today - 30), NoStamp, BadStamp}

IntakeHistories ==
    UNION {{[i \in 1..n |-> Prop(PropId(i), st[i], "Gracia")] : st \in [1..n -> Stamps]} :
              n \in 0..MaxIntake}

InitIntake ==
    /\ ReportIdle
    /\ ScrapeIdle
    /\ ParseIdle
    /\ BatchIdle
    /\ CallIdle
    /\ history \in IntakeHistories
    /\ analyzed_ids \in SUBSET Ids(history)
    /\ file = FileMissing
    /\ pc = "intake"
    /\ runs = 0
    /\ llm_ok = FALSE
    /\ all_results = <<>>
    /\ to_analyze = <<>>
    /\ batch_idx = 0
    /\ to_send = <<>>
    /\ skipped = 0
    /\ loaded_count = 0
    /\ saved_batches = {}
    /\ ledger = [ids |-> {}, results |-> {}]

\* line 533: to_analyze = get_unanalyzed(properties, analyzed_ids)
Select ==
    /\ pc = "intake"
    /\ to_analyze' = get_unanalyzed(history, analyzed_ids, Today)
    /\ pc' = "selected"
    /\ UNCHANGED <<reportVars, scrapeVars, callVars, parseVars, batchVars, history, file, runs,
                   llm_ok, analyzed_ids,
                   all_results, batch_idx, to_send, skipped, loaded_count, saved_batches, ledger>>

NextIntake == Select

SpecIntake == InitIntake /\ [][NextIntake]_vars

Selected(prop) == \E k \in 1..Len(to_analyze) : to_analyze[k] = prop

\* C22: of the candidates that are not analyzed, get_unanalyzed leaves out
\* every one whose timestamp is older than DAYS_TO_ANALYZE days, returns
\* every one without a timestamp and every one within the window, and
\* returns them in the order of the history.
C22_RecencyWindow ==
    pc = "selected" =>
        /\ \A i \in 1..Len(history) :
              history[i].id \notin analyzed_ids =>
                  /\ (/\ history[i].scraped_at.k = "iso"
                      /\ history[i].scraped_at.day < Today - DAYS_TO_ANALYZE)
                        => ~Selected(history[i])
                  /\ history[i].scraped_at.k = "none" => Selected(history[i])
                  /\ (/\ history[i].scraped_at.k = "iso"
                      /\ history[i].scraped_at.day >= Today - DAYS_TO_ANALYZE)
                        => Selected(history[i])
        /\ \A k \in 1..Len(to_analyze) : \E i \in 1..Len(history) : history[i] = to_analyze[k]
        /\ \A a, b \in 1..Len(to_analyze) : a < b => to_analyze[a].id < to_analyze[b].id

\* an old candidate left out between two returned ones, the second undated
C22_Witness ==
    /\ pc = "selected"
    /\ Len(history) = 3
    /\ analyzed_ids = {}
    /\ history[1].scraped_at = IsoStamp(Today - 1)
    /\ history[2].scraped_at = IsoStamp(Today - DAYS_TO_ANALYZE - 1)
    /\ history[3].scraped_at = NoStamp
    /\ to_analyze = <<history[1], history[3]>>

-----------------------------------------------------------------------------
(* SpecReport: one city report of send_notifications.  A string is a        *)
(* sequence of segments; a segment is the separator, a header or one        *)
(* property block, and carries its length in characters.                    *)

\* _split_message's default max_len
MAX_LEN == 4096

\* "\n\n" + 12 box characters + "\n\n"
separator == [k |-> "sep", id |-> 0, len |-> 16]

CityLabelLen(c) == IF c = "barcelona" THEN 9 ELSE 6

Digits(n) == IF n < 10 THEN 1 ELSE 2

\* line 487: flag, " <b>", label, "</b> — ", count, " объектов\n"
header(c, n) == [k |-> "header", id |-> 0, len |-> 23 + CityLabelLen(c) + Digits(n)]

\* line 504: flag, " <b>", label, "</b> (прод.)\n\n"
ContinuationHeader(c) == [k |-> "continuation", id |-> 0, len |-> 20 + CityLabelLen(c)]

\* the i-th block format_property_compact returned, len characters long
PropertyBlock(i, len) == [k |-> "block", id |-> i, len |-> len]

RECURSIVE StrLen(_)
StrLen(str) == IF str = <<>> THEN 0 ELSE Head(str).len + StrLen(Tail(str))

\* separator.join(strs)
RECURSIVE Join(_)
Join(strs) ==
    IF strs = <<>> THEN <<>>
    ELSE IF Len(strs) = 1 THEN strs[1]
    ELSE strs[1] \o <<separator>> \o Join(Tail(strs))

\* str.find(separator), 0 if there is none
Find(str) ==
    IF \E i \in 1..Len(str) : str[i] = separator
    THEN CHOOSE i \in 1..Len(str) :
            /\ str[i] = separator
            /\ \A h \in 1..(i - 1) : str[h] # separator
    ELSE 0


\* str.split(separator)
RECURSIVE SplitAt(_, _)
SplitAt(str, at) ==
    IF at = 0 THEN <<str>>
    ELSE <<SubSeq(str, 1, at - 1)>>
            \o SplitAt(SubSeq(str, at + 1, Len(str)), Find(SubSeq(str, at + 1, Len(str))))

Split(str) == SplitAt(str, Find(str))

\* a candidate joined without the separator
Candidate_NoSeparator(current, part) == IF current # <<>> THEN current \o part ELSE part

\* line 436
Candidate(current, part) ==
    IF current # <<>> THEN current \o <<separator>> \o part ELSE part

\* lines 437-441
SplitStep(messages, current, part, candidate, max_len) ==
    IF StrLen(candidate) > max_len /\ current # <<>>
    THEN [messages |-> Append(messages, current), current |-> part]
    ELSE [messages |-> messages, current |-> candidate]

\* lines 435-441: the for loop from the i-th part on
RECURSIVE SplitLoop(_, _, _, _)
SplitLoop(ps, i, st, max_len) ==
    IF i > Len(ps) THEN st
    ELSE SplitLoop(ps, i + 1,
                   SplitStep(st.messages, st.current, ps[i],
                             Candidate(st.current, ps[i]), max_len),
                   max_len)

\* lines 443-446
SplitEnd(st) == IF st.current # <<>> THEN Append(st.messages, st.current) ELSE st.messages

split_message(str, max_len) ==
    IF StrLen(str) <= max_len THEN <<str>>
    ELSE SplitEnd(SplitLoop(Split(str), 1, [messages |-> <<>>, current |-> <<>>], max_len))

\* lengths of ordinary blocks: a short one, and one with a full title and
\* four full summaries
BlockLens == {400, 570}

\* a block whose address or url alone is longer than a message
LongBlockLens == {570, 5000}

BlockLists ==
    UNION {[1..n -> BlockLens] : n \in 1..MaxBlocks}
       \cup UNION {[1..n -> LongBlockLens] : n \in 1..2}

\* lines 489-494
property_blocks(lens) == [i \in 1..Len(lens) |-> <<PropertyBlock(i, lens[i])>>]

FullMsg(c, lens) == <<header(c, Len(lens))>> \o Join(property_blocks(lens))

\* a city with results, its header and its blocks joined (lines 481-494)
InitReport ==
    /\ ParseIdle
    /\ BatchIdle
    /\ RunIdle
    /\ CallIdle
    /\ ScrapeIdle
    /\ city \in {"barcelona", "madrid"}
    /\ full_msg \in {FullMsg(city, lens) : lens \in BlockLists}
    /\ parts = <<>>
    /\ part_j = 0
    /\ sent = <<>>
    /\ report_pc = "built"

\* line 497
SplitReport ==
    /\ report_pc = "built"
    /\ parts' = split_message(full_msg, MAX_LEN)
    /\ report_pc' = "sending"
    /\ UNCHANGED <<parseVars, batchVars, runVars, callVars, scrapeVars, city, full_msg,
                   part_j, sent>>

\* lines 501-505: what send_telegram is handed for part j
Message(c, j, part) == IF j > 0 THEN <<ContinuationHeader(c)>> \o part ELSE part

\* lines 498-506: one turn of the loop over the parts
SendPart ==
    /\ report_pc = "sending"
    /\ part_j < Len(parts)
    /\ sent' = Append(sent, Message(city, part_j, parts[part_j + 1]))
    /\ part_j' = part_j + 1
    /\ report_pc' = IF part_j + 1 = Len(parts) THEN "done" ELSE "sending"
    /\ UNCHANGED <<parseVars, batchVars, runVars, callVars, scrapeVars, city, full_msg, parts>>

NextReport == SplitReport \/ SendPart

SpecReport == InitReport /\ [][NextReport]_vars

\* the items of a string
Items(str) == Split(str)

RECURSIVE Flatten(_)
Flatten(seqs) == IF seqs = <<>> THEN <<>> ELSE Head(seqs) \o Flatten(Tail(seqs))

\* C23: the chunks _split_message returns are separator-joined runs of whole,
\* consecutive items of the report: their items, taken chunk after chunk,
\* are the items of the report in order, every chunk has at least one item,
\* and the chunks joined with the separator are the report.
C23_SplitOnlyAtSeparators ==
    report_pc # "built" =>
        /\ Join(parts) = full_msg
        /\ Flatten([p \in 1..Len(parts) |-> Items(parts[p])]) = Items(full_msg)
        /\ \A p \in 1..Len(parts) :
              /\ parts[p] # <<>>
              /\ \A i \in 1..Len(Items(parts[p])) : Items(parts[p])[i] # <<>>
              /\ Join(Items(parts[p])) = parts[p]

\* an oversized report split in two chunks of several items
C23_Witness ==
    /\ report_pc = "done"
    /\ StrLen(full_msg) > MAX_LEN
    /\ Len(parts) = 2
    /\ \A p \in 1..Len(parts) : Len(Items(parts[p])) >= 2

\* C29: every message handed to send_telegram for a city report is at most
\* 4096 characters long.
C29_MessagesFit == \A m \in 1..Len(sent) : StrLen(sent[m]) <= MAX_LEN

-----------------------------------------------------------------------------
(* SpecScrape: scraper.py's main(), run after run, over its two files.      *)
(* An address is a sequence of characters, a size is in tenths of m2.       *)

\* str.strip()
RECURSIVE LStrip(_)
LStrip(str) == IF str # <<>> /\ Head(str) = " " THEN LStrip(Tail(str)) ELSE str

RECURSIVE RStrip(_)
RStrip(str) ==
    IF str # <<>> /\ str[Len(str)] = " " THEN RStrip(SubSeq(str, 1, Len(str) - 1)) ELSE str

Strip(str) == LStrip(RStrip(str))

\* re.sub(r"\s+", " ", str)
RECURSIVE CollapseSpaces(_)
CollapseSpaces(str) ==
    IF Len(str) < 2 THEN str
    ELSE IF str[1] = " " /\ str[2] = " " THEN CollapseSpaces(Tail(str))
    ELSE <<str[1]>> \o CollapseSpaces(Tail(str))

\* lines 99-103
cross_source_key(prop) ==
    <<CollapseSpaces(Strip(Lower(prop.address))), prop.price \div 1000, prop.size10 \div 10>>

SEARCH_CONFIGS == <<"barcelona", "madrid">>

\* the scrapers main() calls for each config, in order
SOURCES == <<"pisos", "fotocasa", "idealista">>

NumSourceLists == Len(SEARCH_CONFIGS) * Len(SOURCES)

SourceOf(k) == SOURCES[((k - 1) % Len(SOURCES)) + 1]

Listing(id, source, address, price, size10) ==
    [id |-> id, source |-> source, address |-> address, price |-> price, size10 |-> size10]

\* one flat advertised on two portals, the address typed differently and
\* the price and size within the same thousand and the same m2; another
\* flat; the first flat's address at another price
Listings ==
    {Listing(1, "pisos", <<"C", " ", "A">>, 250000, 805),
     Listing(2, "fotocasa", <<" ", "c", " ", " ", "a">>, 250900, 800),
     Listing(3, "idealista", <<"C", " ", "B">>, 250000, 800),
     Listing(4, "pisos", <<"C", " ", "A">>, 251000, 805)}

\* what the k-th scraper call of a run can return
SourceLists(k) ==
    UNION {[1..n -> {l \in Listings : l.source = SourceOf(k)}] : n \in 0..MaxScraped}

\* lines 620-626: one turn of the loop over the new listings of a source
Admit(st, p, ck) ==
    IF ck \notin st.cross_keys
    THEN [seen |-> st.seen \cup {p.id}, all_new |-> Append(st.all_new, p),
          cross_keys |-> st.cross_keys \cup {ck}]
    ELSE st

RECURSIVE AdmitAll(_, _, _)
AdmitAll(st, new, i) ==
    IF i > Len(new) THEN st
    ELSE AdmitAll(Admit(st, new[i], cross_source_key(new[i])), new, i + 1)

\* lines 616: the listings of a source that are not in seen
NewOf(listings, seen_now) == SelectSeq(listings, LAMBDA p : p.id \notin seen_now)

\* lines 48-56
load_seen == seen_file

\* lines 67-74
load_history == history_file

Stamped(prop, timestamp) ==
    [id |-> prop.id, source |-> prop.source, address |-> prop.address,
     price |-> prop.price, size10 |-> prop.size10, scraped_at |-> timestamp]

\* lines 77-88: what save_history writes
save_history(new_properties, old, timestamp) ==
    [i \in 1..Len(SelectSeq(new_properties, LAMBDA p : p.id \notin {old[h].id : h \in 1..Len(old)}))
        |-> Stamped(SelectSeq(new_properties,
                              LAMBDA p : p.id \notin {old[h].id : h \in 1..Len(old)})[i],
                    timestamp)]
      \o old

InitScrape ==
    /\ ParseIdle
    /\ BatchIdle
    /\ RunIdle
    /\ CallIdle
    /\ ReportIdle
    /\ ScrapeIdle

\* lines 598-606
ScrapeStart ==
    /\ scrape_pc \in {"idle", "done", "crashed"}
    /\ scrape_runs < MaxScrapeRuns
    /\ scrape_runs' = scrape_runs + 1
    /\ seen' = load_seen
    /\ seen_loaded' = load_seen
    /\ all_new' = <<>>
    /\ cross_keys' = {}
    /\ source_i' = 0
    /\ scrape_pc' = "scraping"
    /\ UNCHANGED <<parseVars, batchVars, runVars, callVars, reportVars, seen_file, history_file>>

ScrapedSource(st) ==
    /\ seen' = st.seen
    /\ all_new' = st.all_new
    /\ cross_keys' = st.cross_keys

\* lines 612-662: one scraper call and the loop over what it returned
ScrapeSource ==
    /\ scrape_pc = "scraping"
    /\ source_i < NumSourceLists
    /\ \E listings \in SourceLists(source_i + 1) :
          ScrapedSource(AdmitAll([seen |-> seen, all_new |-> all_new, cross_keys |-> cross_keys],
                                 NewOf(listings, seen), 1))
    /\ source_i' = source_i + 1
    /\ UNCHANGED <<parseVars, batchVars, runVars, callVars, reportVars, seen_file, history_file,
                   scrape_pc, seen_loaded, scrape_runs>>

\* line 669
SaveSeen ==
    /\ scrape_pc = "scraping"
    /\ source_i = NumSourceLists
    /\ seen_file' = seen
    /\ scrape_pc' = "seen_saved"
    /\ UNCHANGED <<parseVars, batchVars, runVars, callVars, reportVars, history_file, seen,
                   seen_loaded, all_new, cross_keys, source_i, scrape_runs>>

\* lines 671-672
SaveHistory ==
    /\ scrape_pc = "seen_saved"
    /\ history_file' = IF all_new # <<>>
                       THEN save_history(all_new, load_history, scrape_runs)
                       ELSE history_file
    /\ scrape_pc' = "done"
    /\ UNCHANGED <<parseVars, batchVars, runVars, callVars, reportVars, seen_file, seen,
                   seen_loaded, all_new, cross_keys, source_i, scrape_runs>>

\* the process is killed between line 669 and line 672
ScrapeCrash ==
    /\ scrape_pc = "seen_saved"
    /\ scrape_pc' = "crashed"
    /\ UNCHANGED <<parseVars, batchVars, runVars, callVars, reportVars, seen_file, history_file,
                   seen, seen_loaded, all_new, cross_keys, source_i, scrape_runs>>

NextScrape == ScrapeStart \/ ScrapeSource \/ SaveSeen \/ SaveHistory \/ ScrapeCrash

SpecScrape == InitScrape /\ [][NextScrape]_vars

HistoryIds == {history_file[i].id : i \in 1..Len(history_file)}

C30_SeenIdsAreInHistory ==
    /\ [](/\ scrape_pc \in {"done", "crashed"} => (seen_file \ seen_loaded) \subseteq HistoryIds
          /\ \A i, h \in 1..Len(history_file) :
                i # h => history_file[i].id # history_file[h].id)
    /\ [][\A i \in 1..Len(history_file) :
             \E h \in 1..Len(history_file') : history_file'[h] = history_file[i]]_vars

-----------------------------------------------------------------------------
(* The batches of a run, under SpecRun *)

EligibleIds == [i \in 1..Len(to_analyze) |-> to_analyze[i].id]

\* line 559: range(0, len(to_analyze), BATCH_SIZE)
BatchStarts ==
    [k \in 1..((Len(to_analyze) + BATCH_SIZE - 1) \div BATCH_SIZE) |-> (k - 1) * BATCH_SIZE]

Batches == [k \in 1..Len(BatchStarts) |-> BatchIds(to_analyze, BatchStarts[k])]

RunResultIds == [i \in 1..Len(RunResults) |-> RunResults[i].property_id]

\* C25: the batches of a run, one after the other, are the eligible list;
\* each has 1..BATCH_SIZE candidates and all but the last BATCH_SIZE; the
\* results of the run are those of the batches evaluated so far, one per
\* candidate and in order; when the run reaches its end every eligible
\* candidate has one result and len(to_send) + skipped is their number.
C25_BatchesPartitionEligible ==
    /\ Flatten(Batches) = EligibleIds
    /\ \A k \in 1..Len(Batches) :
          /\ Len(Batches[k]) \in 1..BATCH_SIZE
          /\ k < Len(Batches) => Len(Batches[k]) = BATCH_SIZE
    /\ pc \in {"loop", "done"} =>
          /\ \E k \in 0..Len(Batches) : batch_idx = k * BATCH_SIZE
          /\ RunResultIds = SubSeq(EligibleIds, 1, Min(batch_idx, Len(to_analyze)))
    /\ pc = "done" =>
          /\ RunResultIds = EligibleIds
          /\ Len(to_send) + skipped = Len(to_analyze)

\* a run of two batches, with both decisions, at its end
C25_Witness ==
    /\ pc = "done"
    /\ Len(to_analyze) = BATCH_SIZE + 1
    /\ Len(Batches) = 2
    /\ skipped >= 1
    /\ to_send # <<>>

-----------------------------------------------------------------------------
(* Positions and order in evaluate_batch, under SpecBatch *)

\* C26: the i-th result evaluate_batch returns has the id of the i-th
\* property of the batch, and its vote for a persona whose iteration did
\* not fail is the i-th element of what parse_batch_votes returned for that
\* persona, whatever its property_num; the personas are called in the order
\* of the registry, and evaluate_batch returns or raises only after every
\* persona was called.
C26_VotesByPosition ==
    /\ calls = SubSeq(agents, 1, Len(calls))
    /\ agents = SubSeq(AGENTS, 1, Len(agents))
    /\ batch_out.kind # "running" => calls = agents
    /\ Returned =>
          /\ Len(batch_out.value) = Len(batch)
          /\ \A i \in 1..Len(batch) :
                /\ batch_out.value[i].property_id = batch[i]
                /\ \A name \in DOMAIN returned_votes :
                      /\ name \in DOMAIN batch_out.value[i].votes
                      /\ i <= Len(returned_votes[name])
                      /\ batch_out.value[i].votes[name] = returned_votes[name][i]

\* four personas and two properties; one persona voted differently on the
\* two, and its second vote carries property_num 1
C26_Witness ==
    /\ Returned
    /\ Len(agents) = 4
    /\ Len(batch) = 2
    /\ \E name \in DOMAIN returned_votes :
          /\ returned_votes[name][2].property_num = 1
          /\ returned_votes[name][1].vote # returned_votes[name][2].vote
          /\ batch_out.value[2].votes[name].vote = returned_votes[name][2].vote

-----------------------------------------------------------------------------
(* The ledger over several runs, under SpecRun *)

StoredResults == LoadedResults(load_analyzed(file))

\* at most one stored result per id, and every stored result's id is a
\* stored analyzed id
LedgerWellFormed ==
    /\ \A i, k \in 1..Len(StoredResults) :
          i # k => StoredResults[i].property_id # StoredResults[k].property_id
    /\ StoredResultIds \subseteq StoredIds

\* what the saves that returned have written is in the file
LedgerKept ==
    /\ ledger.ids \subseteq StoredIds
    /\ ledger.results \subseteq StoredResultIds

\* C27: whatever runs and crashes came before, analyzed_properties.json
\* holds at most one result per id, the id of every result it holds is
\* among its analyzed_ids, and, when no save is under way, it holds every id
\* and the result of every id that an earlier save wrote.
C27_LedgerAppendOnly ==
    /\ LedgerWellFormed
    /\ pc # "writing" => LedgerKept

-----------------------------------------------------------------------------
(* A total outage, under SpecRun *)

\* C28: a candidate of a batch for which every persona's call failed has
\* only UNCERTAIN votes, one per persona, decision SEND and a score equal to
\* the number of personas, and is handed to the notification step; once the
\* save of its batch has returned, the next run does not select it again.
C28_OutageIsSendAndFinal ==
    /\ [](\A i \in 1..Len(RunResults) :
             IsOutage(RunResults[i]) =>
                 /\ DOMAIN RunResults[i].votes = Range(AGENTS)
                 /\ \A a \in Range(AGENTS) : RunResults[i].votes[a].vote = "UNCERTAIN"
                 /\ RunResults[i].decision = "SEND"
                 /\ RunResults[i].score = Len(AGENTS)
                 /\ InToSend(RunResults[i]))
    /\ [][\A i \in 1..Len(RunResults) :
             (/\ IsOutage(RunResults[i])
              /\ RunResults[i].property_id \in saved_batches
              /\ runs' = runs + 1)
                => RunResults[i].property_id \notin Ids(to_analyze')]_vars

====
